---- MODULE Spec2Model ----
(***************************************************************************)
(* Scoped query wrappers of the Postgres row-level-security reference      *)
(* implementation: queryAsUser / queryAsTenant / queryAsTenantAndUser /     *)
(* queryAsUser2 over one shared pg.Pool, the SQL text they build, and the   *)
(* row-level-security policies of db.sql.                                   *)
(*                                                                         *)
(* SQL text is a sequence of lexical atoms.  The atoms that matter to the  *)
(* lexer are kept apart: "q" is a single quote, "dq" a double quote, "sc"  *)
(* a semicolon, "bs" a backslash, "nl" white space, "E" the escape-string  *)
(* prefix that pg.escapeLiteral emits, "comma" a comma.  Every other atom  *)
(* is an ordinary run of characters ("1", "2", "tenant_", "public") or a   *)
(* fixed piece of SQL ("SET_UID" is  SET SESSION app.current_user_id to,   *)
(* "SET_PATH" is  SET search_path TO, "SEL_ITEMS" is  SELECT * FROM items, *)
(* "SEL_CUR" is  SELECT current_setting('app.current_user_id'), "BAD" is a *)
(* statement that parses and raises when it runs).                         *)
(*                                                                         *)
(* The last part models the graph posts: the node and edge tables, the     *)
(* recursive queries over them (has_cycle, shortest_path, all_paths) as    *)
(* Postgres evaluates WITH RECURSIVE, and the check_no_cycles constraint.  *)
(***************************************************************************)
EXTENDS Naturals, Sequences, FiniteSets

VARIABLES pc, call, client, outcome, ctx, released, idle, session, lastStmt, db,
          node, edge, constrained, fn, cte, tx

\* the pool, its connections and the operations of the query wrappers
poolVars == <<pc, call, client, outcome, ctx, released, idle, session, lastStmt, db>>

\* the node and edge tables of the graph posts, whether check_no_cycles is in
\* place, the statement the session on them runs, the recursive query that
\* is being evaluated, and the transactions that insert edges
graphVars == <<node, edge, constrained, fn, cte, tx>>

vars == <<pc, call, client, outcome, ctx, released, idle, session, lastStmt, db,
          node, edge, constrained, fn, cte, tx>>

\* ------------------------------------------------------------------ bounds

\* number of operations that may be in flight at once
NOps == 2

\* number of connections the pool may hold
PoolSize == 2

\* longest user / tenant identifier, in atoms
MaxIdLen == 2

\* number of item ids in the tables of the row-level-security specification
MaxItems == 2

\* number of nodes of the graphs drawn at will
MaxNodes == 3

\* iterations of a recursive query without a stop condition that are followed
MaxIter == 5

\* number of transactions that insert edges side by side
NTx == 2

Txs == 1..NTx

Ops == 1..NOps

Conns == 1..PoolSize

\* ------------------------------------------------------------ SQL escaping

RECURSIVE DoubleChars(_, _)
\* every atom of str that is in cs is written twice
DoubleChars(str, cs) ==
  IF str = <<>> THEN <<>>
  ELSE (IF Head(str) \in cs THEN <<Head(str), Head(str)>> ELSE <<Head(str)>>)
       \o DoubleChars(Tail(str), cs)

HasChar(str, c) == \E i \in 1..Len(str) : str[i] = c

\* pg.escapeLiteral: quotes and backslashes doubled, wrapped in quotes, and
\* prefixed with " E" when the string holds a backslash
escapeLiteral(str) ==
  (IF HasChar(str, "bs") THEN <<"E">> ELSE <<>>)
  \o <<"q">> \o DoubleChars(str, {"q", "bs"}) \o <<"q">>

\* pg.escapeIdentifier: double quotes doubled, wrapped in double quotes
escapeIdentifier(str) == <<"dq">> \o DoubleChars(str, {"dq"}) \o <<"dq">>

\* ------------------------------------------------------------- SQL lexing

Tok(type, val) == [type |-> type, val |-> val]

RECURSIVE LexFrom(_, _), ScanString(_, _, _, _), ScanIdent(_, _, _)

\* the tokens of t from position i on, white space dropped
LexFrom(t, i) ==
  IF i > Len(t) THEN <<>>
  ELSE LET c == t[i] IN
    CASE c = "nl" -> LexFrom(t, i + 1)
      [] c = "sc" -> <<Tok("semi", <<>>)>> \o LexFrom(t, i + 1)
      [] c = "q" -> ScanString(t, i + 1, <<>>, FALSE)
      [] c = "E" /\ i < Len(t) /\ t[i + 1] = "q" -> ScanString(t, i + 2, <<>>, TRUE)
      [] c = "dq" -> ScanIdent(t, i + 1, <<>>)
      [] OTHER -> <<Tok("word", <<c>>)>> \o LexFrom(t, i + 1)

\* inside a string constant: '' is one quote; in an escape string (esc) a
\* backslash takes the next atom literally; the end of input inside the
\* constant is an unterminated string
ScanString(t, i, acc, esc) ==
  IF i > Len(t) THEN <<Tok("unterminated", acc)>>
  ELSE LET c == t[i] IN
    CASE c = "q" ->
           IF i < Len(t) /\ t[i + 1] = "q"
           THEN ScanString(t, i + 2, Append(acc, "q"), esc)
           ELSE <<Tok("lit", acc)>> \o LexFrom(t, i + 1)
      [] c = "bs" /\ esc ->
           IF i = Len(t) THEN <<Tok("unterminated", acc)>>
           ELSE ScanString(t, i + 2, Append(acc, t[i + 1]), esc)
      [] OTHER -> ScanString(t, i + 1, Append(acc, c), esc)

\* inside a quoted identifier: "" is one double quote
ScanIdent(t, i, acc) ==
  IF i > Len(t) THEN <<Tok("unterminated", acc)>>
  ELSE LET c == t[i] IN
    IF c = "dq"
    THEN IF i < Len(t) /\ t[i + 1] = "dq"
         THEN ScanIdent(t, i + 2, Append(acc, "dq"))
         ELSE <<Tok("ident", acc)>> \o LexFrom(t, i + 1)
    ELSE ScanIdent(t, i + 1, Append(acc, c))

Lex(t) == LexFrom(t, 1)

RECURSIVE SplitFrom(_, _, _)
\* the statements of a token sequence: cut at each semicolon, empty ones dropped
SplitFrom(toks, i, cur) ==
  IF i > Len(toks) THEN (IF cur = <<>> THEN <<>> ELSE <<cur>>)
  ELSE IF toks[i].type = "semi"
       THEN (IF cur = <<>> THEN <<>> ELSE <<cur>>) \o SplitFrom(toks, i + 1, <<>>)
       ELSE SplitFrom(toks, i + 1, Append(cur, toks[i]))

Statements(t) == SplitFrom(Lex(t), 1, <<>>)

\* ------------------------------------------------------------ SQL parsing

IsValue(tok) == tok.type \in {"lit", "ident"}

IsWord(tok, w) == tok.type = "word" /\ tok.val = <<w>>

RECURSIVE IsValueList(_, _)
\* stmt[i..] is  value (, value)*
IsValueList(stmt, i) ==
  /\ i <= Len(stmt)
  /\ IsValue(stmt[i])
  /\ \/ i = Len(stmt)
     \/ /\ i + 1 < Len(stmt)
        /\ IsWord(stmt[i + 1], "comma")
        /\ IsValueList(stmt, i + 2)

\* the values of a value list, in order
ValuesOf(stmt) ==
  LET idx == {i \in 2..Len(stmt) : IsValue(stmt[i])}
      n == Cardinality(idx)
  IN [k \in 1..n |-> stmt[2 * k].val]

SyntaxError == [kind |-> "syntax", val |-> <<>>]

\* what the server's parser makes of one statement of the batch
Parse(stmt) ==
  IF \E i \in 1..Len(stmt) : stmt[i].type = "unterminated" THEN SyntaxError
  ELSE IF IsWord(stmt[1], "SET_UID")
       THEN IF Len(stmt) = 2 /\ IsValue(stmt[2])
            THEN [kind |-> "set_uid", val |-> <<stmt[2].val>>]
            ELSE SyntaxError
  ELSE IF IsWord(stmt[1], "SET_PATH")
       THEN IF IsValueList(stmt, 2)
            THEN [kind |-> "set_path", val |-> ValuesOf(stmt)]
            ELSE SyntaxError
  ELSE IF Len(stmt) = 1 /\ stmt[1].type = "word"
          /\ stmt[1].val[1] \in {"SEL_ITEMS", "SEL_CUR", "BAD"}
       THEN [kind |-> stmt[1].val[1], val |-> <<>>]
  ELSE SyntaxError

ParseAll(t) == LET st == Statements(t) IN [i \in 1..Len(st) |-> Parse(st[i])]

\* --------------------------------------------------- database and sessions

\* a fresh connection: app.current_user_id is not set, search_path is the default
DefaultSession == [uid |-> {}, path |-> << <<"$user">>, <<"public">> >>]

\* db.sql: INSERT EXAMPLE DATA
SeedDb ==
  [users |-> {<<"1">>, <<"2">>},
   items |-> {<<"1">>, <<"2">>, <<"3">>, <<"4">>},
   item_users |-> {[item_id |-> <<"1">>, user_id |-> <<"1">>],
                   [item_id |-> <<"2">>, user_id |-> <<"2">>],
                   [item_id |-> <<"3">>, user_id |-> <<"1">>],
                   [item_id |-> <<"3">>, user_id |-> <<"2">>]}]

\* select_policy ON item_users: user_id = current_setting('app.current_user_id')
VisibleItemUsers(d, uid) == {r \in d.item_users : r.user_id = uid}

\* a plausible slip: the policy on items is left out, every item is visible
VisibleItemsNoPolicy(d, uid) == d.items

\* a plausible slip: the policy on items tests that a link exists but not whose
VisibleItemsAnyLink(d, uid) ==
  {i \in d.items : \E r \in d.item_users : r.item_id = i}

\* select_policy ON items: EXISTS (SELECT 1 FROM item_users WHERE item_id = id
\* AND user_id = current_setting(...)); the inner SELECT is itself filtered by
\* the policy on item_users
VisibleItems(d, uid) ==
  {i \in d.items :
     \E r \in VisibleItemUsers(d, uid) : r.item_id = i /\ r.user_id = uid}

\* an unqualified table name resolves through search_path: db.sql creates its
\* tables without a schema name, that is in schema public
OnSearchPath(sess, schema) == \E i \in 1..Len(sess.path) : sess.path[i] = schema

Result(cmd, rows, sess) == [cmd |-> cmd, rows |-> rows, sess |-> sess]

Reply(err, sess, results) == [err |-> err, sess |-> sess, results |-> results]

RECURSIVE RunFrom(_, _, _, _, _, _)
\* the statements of a parsed batch run in order in one implicit transaction:
\* a statement that raises ends the batch and rolls the session back to sess0
RunFrom(parsed, i, sess, results, sess0, d) ==
  IF i > Len(parsed) THEN Reply("none", sess, results)
  ELSE LET p == parsed[i] IN
    CASE p.kind = "set_uid" ->
           LET s2 == [sess EXCEPT !.uid = {p.val[1]}]
           IN RunFrom(parsed, i + 1, s2, Append(results, Result("SET", {}, s2)), sess0, d)
      [] p.kind = "set_path" ->
           LET s2 == [sess EXCEPT !.path = p.val]
           IN RunFrom(parsed, i + 1, s2, Append(results, Result("SET", {}, s2)), sess0, d)
      [] p.kind = "SEL_CUR" ->
           IF sess.uid = {} THEN Reply("db", sess0, <<>>)
           ELSE RunFrom(parsed, i + 1, sess,
                        Append(results, Result("SELECT", sess.uid, sess)), sess0, d)
      [] p.kind = "SEL_ITEMS" ->
           IF ~OnSearchPath(sess, <<"public">>) THEN Reply("undefined_table", sess0, <<>>)
           ELSE IF sess.uid = {} THEN Reply("db", sess0, <<>>)
           ELSE LET u == CHOOSE u \in sess.uid : TRUE
                IN RunFrom(parsed, i + 1, sess,
                           Append(results, Result("SELECT", VisibleItems(d, u), sess)),
                           sess0, d)
      [] OTHER -> Reply("db", sess0, <<>>)

\* one simple-query message: the whole text is parsed first, a syntax error
\* anywhere fails the batch before any statement runs
ExecText(sess, d, t) ==
  LET parsed == ParseAll(t) IN
  IF \E i \in 1..Len(parsed) : parsed[i].kind = "syntax"
  THEN Reply("syntax", sess, <<>>)
  ELSE RunFrom(parsed, 1, sess, <<>>, sess, d)

\* ------------------------------------------------------- the query wrappers

BatchKinds ==
  {"queryAsUser", "queryAsTenant", "queryAsTenantAndUser",
   "main_queryAsUser", "main_queryAsTenant", "main_queryAsTenantAndUser"}

AllKinds == BatchKinds \cup {"queryAsUser2"}

UsesUser(kind) == kind \notin {"queryAsTenant", "main_queryAsTenant"}

UsesTenant(kind) ==
  kind \in {"queryAsTenant", "queryAsTenantAndUser",
            "main_queryAsTenant", "main_queryAsTenantAndUser"}

\* the SET SESSION line of part_000, without its terminator
SetUserText(userId) == <<"SET_UID">> \o escapeLiteral(userId)

\* the SET SESSION line of main.ts: the id is put between quotes as it is
SetUserTextMain(userId) == <<"SET_UID", "q">> \o userId \o <<"q">>

\* the SET search_path line of part_000 (it ends without a semicolon)
SetPathText(tenantId) ==
  <<"SET_PATH">> \o escapeIdentifier(<<"tenant_">> \o tenantId)
  \o <<"comma", "q", "public", "q">>

\* the SET search_path line of main.ts (it ends without a semicolon)
SetPathTextMain(tenantId) ==
  <<"SET_PATH", "q", "tenant_">> \o tenantId \o <<"q", "comma", "q", "public", "q">>

\* the template string each wrapper hands to pool.query
BatchText(c) ==
  CASE c.kind = "queryAsUser" ->
         <<"nl">> \o SetUserText(c.userId) \o <<"sc", "nl">> \o c.queryStr \o <<"nl">>
    [] c.kind = "queryAsTenant" ->
         <<"nl">> \o SetPathText(c.tenantId) \o <<"nl">> \o c.queryStr \o <<"nl">>
    [] c.kind = "queryAsTenantAndUser" ->
         <<"nl">> \o SetPathText(c.tenantId) \o <<"nl">>
         \o SetUserText(c.userId) \o <<"sc", "nl">> \o c.queryStr \o <<"nl">>
    [] c.kind = "main_queryAsUser" ->
         <<"nl">> \o SetUserTextMain(c.userId) \o <<"sc", "nl">> \o c.queryStr \o <<"nl">>
    [] c.kind = "main_queryAsTenant" ->
         <<"nl">> \o SetPathTextMain(c.tenantId) \o <<"nl">> \o c.queryStr \o <<"nl">>
    [] c.kind = "main_queryAsTenantAndUser" ->
         <<"nl">> \o SetPathTextMain(c.tenantId) \o <<"nl">>
         \o SetUserTextMain(c.userId) \o <<"sc", "nl">> \o c.queryStr \o <<"nl">>

\* a plausible slip: the index of the first result set, that of the SET statement
ResultIndexZero(kind) == 0

\* the index each wrapper reads in the results of its batch (from 0)
ResultIndex(kind) ==
  IF kind \in {"queryAsTenantAndUser", "main_queryAsTenantAndUser"} THEN 2 ELSE 1

NoOutcome == [status |-> "none", rows |-> {}, err |-> "none"]

\* a plausible slip: a catch block that turns an error into an empty row set
RaisedAsNoRows(err) == [status |-> "rows", rows |-> {}, err |-> "none"]

Rows(rows) == [status |-> "rows", rows |-> rows, err |-> "none"]

Raised(err) == [status |-> "error", rows |-> {}, err |-> err]

\* results[k].rows on what pool.query resolves to: an array of results when the
\* batch held several statements, one result object otherwise (and then
\* results[k] is undefined and reading .rows of it throws)
ReturnAt(results, k) ==
  IF Len(results) >= 2 /\ k + 1 <= Len(results)
  THEN Rows(results[k + 1].rows)
  ELSE Raised("TypeError")

\* results.rows on what client.query resolves to: the rows of the one result,
\* undefined when the text held several statements
ReturnRows(results) ==
  IF Len(results) = 1 THEN Rows(results[1].rows)
  ELSE [status |-> "undefined", rows |-> {}, err |-> "none"]

\* the session in effect when the last statement of the text ran
LastCtx(r) ==
  IF r.err = "none" /\ r.results # <<>> THEN {r.results[Len(r.results)].sess} ELSE {}

NoCall == [kind |-> "none", userId |-> <<>>, tenantId |-> <<>>, queryStr |-> <<>>]

\* no statement runs on the graph tables
NoFn == [name |-> "none", s |-> 0, t |-> 0, ends |-> TRUE, value |-> FALSE]

\* no recursive query is being evaluated
NoCte ==
  [query |-> "none", s |-> 0, work |-> {}, result |-> {}, iter |-> 0, ended |-> FALSE]

\* no transaction has begun
NoTx == [i \in Txs |-> [state |-> "idle", s |-> 0, t |-> 0]]

\* ------------------------------------------------------------------ inputs

\* the atoms an identifier may hold: a digit and the characters SQL reads
IdChars == {"1", "q", "dq", "sc", "bs"}

\* every non-empty identifier of at most n atoms
Ids(n) == UNION {[1..k -> IdChars] : k \in 1..n}

\* the inputs of the concurrent specification
PoolKinds == {"queryAsUser", "queryAsUser2", "main_queryAsUser"}

PoolUserIds == {<<"1">>, <<"2">>, <<"q", "q">>}

\* the caller queries of the concurrent specification
PoolQueries == {<<"SEL_ITEMS">>, <<"SEL_CUR">>}

\* ------------------------------------------------------------------- state

Init ==
  /\ pc = [o \in Ops |-> "idle"]
  /\ call = [o \in Ops |-> NoCall]
  /\ client = [o \in Ops |-> 0]
  /\ outcome = [o \in Ops |-> NoOutcome]
  /\ ctx = [o \in Ops |-> {}]
  /\ released = [o \in Ops |-> 0]
  /\ idle = Conns
  /\ session = [c \in Conns |-> DefaultSession]
  /\ lastStmt = [c \in Conns |-> <<0, "none">>]
  /\ db = SeedDb
  /\ node = {}
  /\ edge = {}
  /\ constrained = FALSE
  /\ fn = NoFn
  /\ cte = NoCte
  /\ tx = NoTx

\* a plausible slip: the pool hands out a connection that is still leased
CanLeaseAny(c) == TRUE

\* pool.connect / pool.query: only an idle connection is leased
CanLease(c) == c \in idle

\* a plausible slip: release() after the try block instead of in finally
ReleasesOnlyOnSuccess(err) == err = "none"

\* try { ... } finally { client.release() }: released on every exit path
ReleasesOn(err) == TRUE

\* a plausible slip: pool.connect() moved inside the try block, so that a
\* failed acquisition still reaches finally { client.release() }
ConnectInsideTry == "finally"

\* const client = await pool.connect() stands before the try block: when it
\* rejects, the wrapper rejects at once and the finally block is never entered
AfterConnectFailure == "done"

\* a plausible slip: the SET SESSION statement of queryAsUser2 is left out
AfterAcquireSkipSet(kind) == IF kind = "queryAsUser2" THEN "set_done" ELSE "sent"

\* where a wrapper stands once it holds a connection: queryAsUser2 sends its
\* SET SESSION statement first, the others send their one batch
AfterAcquire(kind) == IF kind = "queryAsUser2" THEN "leased" ELSE "sent"

\* a plausible slip: a statement that raised is sent again
RetryAfterStatementError(at, err) == at

\* a statement that raises inside the try block leaves it: nothing more of
\* the block runs, control goes to the finally block
AfterStatementError(at, err) == IF ReleasesOn(err) THEN "finally" ELSE "done"

\* a plausible slip: the statements go through one shared connection
RunsOnShared(o) == 1

\* client.query: the statements of an operation run on the connection it leased
RunsOn(o) == client[o]

\* ----------------------------------------------------------------- actions

\* a caller invokes one of the wrappers
Call(o, kinds, userIds, tenantIds, queries) ==
  /\ pc[o] = "idle"
  /\ \E k \in kinds, q \in queries :
       \E u \in (IF UsesUser(k) THEN userIds ELSE {<<>>}),
          t \in (IF UsesTenant(k) THEN tenantIds ELSE {<<>>}) :
         call' = [call EXCEPT ![o] =
                    [kind |-> k, userId |-> u, tenantId |-> t, queryStr |-> q]]
  /\ pc' = [pc EXCEPT ![o] = "connect"]
  /\ UNCHANGED <<client, outcome, ctx, released, idle, session, lastStmt, db>>
  /\ UNCHANGED graphVars

\* the pool leases a connection to the operation (it waits while none is idle)
Acquire(o) ==
  /\ pc[o] = "connect"
  /\ \E c \in Conns :
       /\ CanLease(c)
       /\ client' = [client EXCEPT ![o] = c]
       /\ idle' = idle \ {c}
  /\ pc' = [pc EXCEPT ![o] = AfterAcquire(call[o].kind)]
  /\ UNCHANGED <<call, outcome, ctx, released, session, lastStmt, db>>
  /\ UNCHANGED graphVars

\* the pool cannot supply a connection (the server is unreachable): connect
\* rejects, the wrapper rejects with that error; no client was handed out, so
\* nothing is sent and nothing is released
AcquireFail(o) ==
  /\ pc[o] = "connect"
  /\ outcome' = [outcome EXCEPT ![o] = Raised("acquire")]
  /\ pc' = [pc EXCEPT ![o] = AfterConnectFailure]
  /\ UNCHANGED <<call, client, ctx, released, idle, session, lastStmt, db>>
  /\ UNCHANGED graphVars

\* pool.query: the server runs the batch or reports a failure of its own (the
\* first reply of the set), the pool takes the connection back (a connection
\* whose query failed is removed and replaced by a fresh one) and the wrapper
\* returns results[k].rows or raises
BatchReply(o) ==
  /\ pc[o] = "sent"
  /\ LET c == RunsOn(o) IN
     \E r \in {Reply("db", session[c], <<>>),
               ExecText(session[c], db, BatchText(call[o]))} :
       /\ session' = [session EXCEPT ![c] =
                        IF r.err = "none" THEN r.sess ELSE DefaultSession]
       /\ outcome' = [outcome EXCEPT ![o] =
                        IF r.err = "none"
                        THEN ReturnAt(r.results, ResultIndex(call[o].kind))
                        ELSE Raised(r.err)]
       /\ ctx' = [ctx EXCEPT ![o] = LastCtx(r)]
       /\ lastStmt' = [lastStmt EXCEPT ![c] = <<0, "none">>]
       /\ idle' = idle \cup {c}
  /\ client' = [client EXCEPT ![o] = 0]
  /\ released' = [released EXCEPT ![o] = @ + 1]
  /\ pc' = [pc EXCEPT ![o] = "done"]
  /\ UNCHANGED <<call, db>>
  /\ UNCHANGED graphVars

\* queryAsUser2: await client.query(`SET SESSION ...`)
SetStmt(o) ==
  /\ pc[o] = "leased"
  /\ LET c == RunsOn(o) IN
     \E r \in {Reply("db", session[c], <<>>),
               ExecText(session[c], db, SetUserText(call[o].userId))} :
       /\ session' = [session EXCEPT ![c] = r.sess]
       /\ lastStmt' = [lastStmt EXCEPT ![c] = <<o, "set">>]
       /\ outcome' = [outcome EXCEPT ![o] =
                        IF r.err = "none" THEN @ ELSE Raised(r.err)]
       /\ pc' = [pc EXCEPT ![o] =
                   IF r.err = "none" THEN "set_done"
                   ELSE AfterStatementError(pc[o], r.err)]
  /\ UNCHANGED <<call, client, ctx, released, idle, db>>
  /\ UNCHANGED graphVars

\* queryAsUser2: const results = await client.query(queryStr); return results.rows
CallerStmt(o) ==
  /\ pc[o] = "set_done"
  /\ LET c == RunsOn(o) IN
     \E r \in {Reply("db", session[c], <<>>),
               ExecText(session[c], db, call[o].queryStr)} :
       /\ session' = [session EXCEPT ![c] = r.sess]
       /\ lastStmt' = [lastStmt EXCEPT ![c] = <<o, "caller">>]
       /\ outcome' = [outcome EXCEPT ![o] =
                        IF r.err = "none" THEN ReturnRows(r.results)
                        ELSE Raised(r.err)]
       /\ ctx' = [ctx EXCEPT ![o] = LastCtx(r)]
       /\ pc' = [pc EXCEPT ![o] =
                   IF r.err = "none"
                   THEN (IF ReleasesOn(r.err) THEN "finally" ELSE "done")
                   ELSE AfterStatementError(pc[o], r.err)]
  /\ UNCHANGED <<call, client, released, idle, db>>
  /\ UNCHANGED graphVars

\* queryAsUser2: finally { client.release() }
Release(o) ==
  /\ pc[o] = "finally"
  /\ idle' = idle \cup {client[o]}
  /\ client' = [client EXCEPT ![o] = 0]
  /\ released' = [released EXCEPT ![o] = @ + 1]
  /\ lastStmt' = [lastStmt EXCEPT ![client[o]] = <<0, "none">>]
  /\ pc' = [pc EXCEPT ![o] = "done"]
  /\ UNCHANGED <<call, outcome, ctx, session, db>>
  /\ UNCHANGED graphVars

\* the caller has its rows or its error; the operation is over
Return(o) ==
  /\ pc[o] = "done"
  /\ pc' = [pc EXCEPT ![o] = "idle"]
  /\ call' = [call EXCEPT ![o] = NoCall]
  /\ outcome' = [outcome EXCEPT ![o] = NoOutcome]
  /\ ctx' = [ctx EXCEPT ![o] = {}]
  /\ released' = [released EXCEPT ![o] = 0]
  /\ client' = [client EXCEPT ![o] = 0]
  /\ UNCHANGED <<idle, session, lastStmt, db>>
  /\ UNCHANGED graphVars

\* concurrent operations on one shared pool
Next ==
  \E o \in Ops :
    \/ Call(o, PoolKinds, PoolUserIds, {<<>>}, PoolQueries)
    \/ Acquire(o)
    \/ AcquireFail(o)
    \/ BatchReply(o)
    \/ SetStmt(o)
    \/ CallerStmt(o)
    \/ Release(o)
    \/ Return(o)

Spec == Init /\ [][Next]_vars

\* ------------------------------------------------- concurrency on the pool

InFlight(o) == pc[o] # "idle"

Finished(o) == pc[o] = "done"

\* C1: in every interleaving the value of app.current_user_id that an
\* execution's caller statement sees is that execution's own userId, and what
\* SELECT current_setting('app.current_user_id') returns to it is that userId,
\* for the single-batch wrapper queryAsUser and for queryAsUser2.
C1_SeesOwnUserId ==
  \A o \in Ops :
    /\ \A s \in ctx[o] : s.uid = {call[o].userId}
    /\ (outcome[o].status = "rows" /\ call[o].queryStr = <<"SEL_CUR">>)
         => outcome[o].rows = {call[o].userId}

\* the same statement for the wrappers that escape the identifier
\* (queryAsUser and queryAsUser2 of part_000); it holds in every interleaving
SeesOwnUserIdWhenEscaped ==
  \A o \in Ops :
    call[o].kind \in {"queryAsUser", "queryAsUser2"} =>
      /\ \A s \in ctx[o] : s.uid = {call[o].userId}
      /\ (outcome[o].status = "rows" /\ call[o].queryStr = <<"SEL_CUR">>)
           => outcome[o].rows = {call[o].userId}

\* C2: each connection is leased to at most one operation, a leased
\* connection is not idle, every statement run on a connection during a lease
\* was run by the operation holding the lease, and between the SET SESSION
\* statement of queryAsUser2 and its caller statement no other operation ran a
\* statement on that connection.
C2_ExclusiveLease ==
  /\ \A o1, o2 \in Ops : (o1 # o2 /\ client[o1] # 0) => client[o1] # client[o2]
  /\ \A o \in Ops : client[o] # 0 => client[o] \notin idle
  /\ \A c \in Conns : lastStmt[c][1] # 0 => client[lastStmt[c][1]] = c
  /\ \A o \in Ops : pc[o] = "set_done" => lastStmt[client[o]] = <<o, "set">>

\* two operations hold a connection each, one of them between its SET SESSION
\* statement and its caller statement
C2_Witness ==
  \E o1, o2 \in Ops :
    /\ o1 # o2
    /\ pc[o1] = "set_done"
    /\ client[o2] # 0
    /\ client[o1] # 0

\* C3: when an operation has released its connection none of the session
\* context it set remains on it: every idle connection is in the default
\* session state.
C3_NoContextOnIdle == \A c \in idle : session[c] = DefaultSession

\* C4: an operation that acquired a connection releases it exactly once,
\* whether a statement raised or not, and when no operation is running every
\* connection of the pool is available again.
C4_ReleasedExactlyOnce ==
  /\ \A o \in Ops : released[o] <= 1
  /\ \A o \in Ops :
       Finished(o) =>
         /\ client[o] = 0
         /\ released[o] = (IF outcome[o].err = "acquire" THEN 0 ELSE 1)
  /\ \A o \in Ops : (client[o] # 0) => released[o] = 0
  /\ (\A o \in Ops : pc[o] \in {"idle", "done"}) => idle = Conns

\* an operation of queryAsUser2 ended by raising and its connection is back
C4_Witness ==
  \E o \in Ops :
    /\ call[o].kind = "queryAsUser2"
    /\ Finished(o)
    /\ outcome[o].status = "error"
    /\ released[o] = 1
    /\ idle = Conns

\* the items table rows linked to both users in item_users
LinkedToBoth(d, a, b) ==
  {i \in d.items :
     /\ \E r \in d.item_users : r.item_id = i /\ r.user_id = a
     /\ \E r \in d.item_users : r.item_id = i /\ r.user_id = b}

BothReturned(o1, o2) ==
  /\ o1 # o2
  /\ Finished(o1) /\ Finished(o2)
  /\ outcome[o1].status = "rows" /\ outcome[o2].status = "rows"
  /\ call[o1].queryStr = call[o2].queryStr
  /\ call[o1].userId # call[o2].userId
  /\ call[o1].userId \in db.users /\ call[o2].userId \in db.users

\* C10 as stated: for two distinct users and the same statement on the seeded
\* data, the two row sets returned are disjoint.
C10_Disjoint ==
  \A o1, o2 \in Ops :
    BothReturned(o1, o2) => outcome[o1].rows \cap outcome[o2].rows = {}

\* C10 as amended: for two distinct seeded users and the same statement, the
\* two row sets have in common exactly the rows permitted to both users: for
\* SELECT * FROM items the items linked to both of them in item_users, for
\* SELECT current_setting('app.current_user_id') nothing.
C10_SharedRowsAreLinkedToBoth ==
  \A o1, o2 \in Ops :
    BothReturned(o1, o2) =>
      outcome[o1].rows \cap outcome[o2].rows =
        (IF call[o1].queryStr = <<"SEL_ITEMS">>
         THEN LinkedToBoth(db, call[o1].userId, call[o2].userId)
         ELSE {})

\* users '1' and '2' both ran SELECT * FROM items and both got item '3'
C10_Witness ==
  \E o1, o2 \in Ops :
    /\ BothReturned(o1, o2)
    /\ call[o1].queryStr = <<"SEL_ITEMS">>
    /\ outcome[o1].rows = {<<"1">>, <<"3">>}
    /\ outcome[o2].rows = {<<"2">>, <<"3">>}

\* ------------------------------------------ one operation, every identifier

\* the caller queries of the single-operation specification
SeqQueries == {<<"SEL_CUR">>, <<"BAD">>}

\* one call of any wrapper with any identifier of at most MaxIdLen atoms
NextSeq ==
  \/ Call(1, AllKinds, Ids(MaxIdLen), Ids(MaxIdLen), SeqQueries)
  \/ Acquire(1)
  \/ AcquireFail(1)
  \/ BatchReply(1)
  \/ SetStmt(1)
  \/ CallerStmt(1)
  \/ Release(1)

SpecSeq == Init /\ [][NextSeq]_vars

\* an identifier made of ordinary characters only
Benign(id) == \A i \in 1..Len(id) : id[i] = "1"

\* the call with its identifiers replaced by benign ones
BenignCall(c) ==
  [c EXCEPT !.userId = IF UsesUser(c.kind) THEN <<"1">> ELSE <<>>,
            !.tenantId = IF UsesTenant(c.kind) THEN <<"1">> ELSE <<>>]

\* the last n tokens of a statement
Tail_n(stmt, n) == SubSeq(stmt, Len(stmt) - n + 1, Len(stmt))

\* the batch of call c has as many statements as the batch of the same call
\* with benign identifiers, and it ends with the tokens of the caller's query
SameShapeAsBenign(c) ==
  LET st == Statements(BatchText(c))
      ref == Statements(BatchText(BenignCall(c)))
      q == Lex(c.queryStr)
  IN /\ Len(st) = Len(ref)
     /\ st # <<>>
     /\ Len(st[Len(st)]) >= Len(q)
     /\ Tail_n(st[Len(st)], Len(q)) = q

\* C5: for every user or tenant identifier, also one with a quote or a
\* semicolon, the batch a wrapper sends has the same number of statements and
\* the same caller statement as for a benign identifier.
C5_NoInjection ==
  \A o \in Ops :
    (InFlight(o) /\ call[o].kind \in BatchKinds) => SameShapeAsBenign(call[o])

\* the same statement for the wrappers of part_000, which escape the identifier
NoInjectionWhenEscaped ==
  \A o \in Ops :
    (InFlight(o) /\ call[o].kind \in {"queryAsUser", "queryAsTenant", "queryAsTenantAndUser"})
      => SameShapeAsBenign(call[o])

\* C6: for every userId the value of app.current_user_id that the caller's
\* statement of queryAsUser reads back is exactly the userId passed in; the
\* batch is never rejected because of the identifier.
C6_ReadsBackUserId ==
  \A o \in Ops :
    (Finished(o) /\ call[o].kind \in {"queryAsUser", "main_queryAsUser"}
       /\ call[o].queryStr = <<"SEL_CUR">>)
      => /\ outcome[o].status = "rows" => outcome[o].rows = {call[o].userId}
         /\ outcome[o].status = "error" => outcome[o].err \in {"db", "acquire"}

\* the same statement for queryAsUser of part_000 and for queryAsUser2
ReadsBackUserIdWhenEscaped ==
  \A o \in Ops :
    (Finished(o) /\ call[o].kind \in {"queryAsUser", "queryAsUser2"}
       /\ call[o].queryStr = <<"SEL_CUR">>)
      => /\ outcome[o].status = "rows" => outcome[o].rows = {call[o].userId}
         /\ outcome[o].status = "error" => outcome[o].err \in {"db", "acquire"}

BenignIds(c) == Benign(c.userId) /\ Benign(c.tenantId)

\* C7: for each wrapper and every single-statement caller query the index the
\* wrapper reads equals the number of result sets the preamble produces (the
\* batch holds that many statements before the caller's), and an operation
\* that returns rows returns the rows of the caller's statement.
C7_IndexIsCallerResult ==
  \A o \in Ops :
    (InFlight(o) /\ call[o].kind \in BatchKinds /\ BenignIds(call[o])) =>
      /\ Len(Statements(BatchText(call[o]))) = ResultIndex(call[o].kind) + 1
      /\ outcome[o].status = "error" => outcome[o].err \in {"db", "acquire"}
      /\ (outcome[o].status = "rows" /\ call[o].queryStr = <<"SEL_CUR">>)
           => \A s \in ctx[o] : outcome[o].rows = s.uid

\* the same statement for the user-scope wrappers alone
IndexIsCallerResultForUser ==
  \A o \in Ops :
    (InFlight(o) /\ call[o].kind \in {"queryAsUser", "main_queryAsUser"}
       /\ BenignIds(call[o])) =>
      /\ Len(Statements(BatchText(call[o]))) = ResultIndex(call[o].kind) + 1
      /\ outcome[o].status = "error" => outcome[o].err \in {"db", "acquire"}
      /\ (outcome[o].status = "rows" /\ call[o].queryStr = <<"SEL_CUR">>)
           => \A s \in ctx[o] : outcome[o].rows = s.uid

\* the number of dimensions the scope of a wrapper carries
Dimensions(kind) ==
  (IF UsesUser(kind) THEN 1 ELSE 0) + (IF UsesTenant(kind) THEN 1 ELSE 0)

\* the context-setting statements the server finds in a text
ContextStatements(t) ==
  LET parsed == ParseAll(t)
  IN {i \in 1..Len(parsed) : parsed[i].kind \in {"set_uid", "set_path"}}

\* the text in which the operation sets its context
ContextText(c) ==
  IF c.kind = "queryAsUser2" THEN SetUserText(c.userId) ELSE BatchText(c)

\* C8: the server finds exactly one context-setting statement per dimension
\* of the scope, and when the caller's statement runs app.current_user_id is
\* the userId (user and tenant+user scopes) and search_path is tenant_<id>
\* followed by public (tenant and tenant+user scopes).
C8_ContextInEffect ==
  \A o \in Ops :
    (InFlight(o) /\ BenignIds(call[o])) =>
      /\ Cardinality(ContextStatements(ContextText(call[o]))) = Dimensions(call[o].kind)
      /\ \A s \in ctx[o] :
           /\ UsesUser(call[o].kind) => s.uid = {call[o].userId}
           /\ UsesTenant(call[o].kind) =>
                s.path = << <<"tenant_">> \o call[o].tenantId, <<"public">> >>

\* the same statement for the user-scope wrappers alone
ContextInEffectForUser ==
  \A o \in Ops :
    (InFlight(o) /\ BenignIds(call[o]) /\ ~UsesTenant(call[o].kind)) =>
      /\ Cardinality(ContextStatements(ContextText(call[o]))) = Dimensions(call[o].kind)
      /\ \A s \in ctx[o] : s.uid = {call[o].userId}

\* ------------------------------------------------ row-level security policies

Digits == <<"1", "2", "3", "4", "5">>

\* the ids of the items table
ItemIds == {<<Digits[k]>> : k \in 1..MaxItems}

\* the ids of the users table: users.id is TEXT, any string is a user id
RlsUserIds == {<<"1">>, <<"q">>, <<"q", "q">>}

\* every content of item_users over these users and items (the REFERENCES
\* constraints of db.sql keep its rows within users and items)
RlsDbs ==
  {[users |-> RlsUserIds, items |-> ItemIds, item_users |-> L] :
     L \in SUBSET {[item_id |-> i, user_id |-> u] : i \in ItemIds, u \in RlsUserIds}}

InitRLS ==
  /\ pc = [o \in Ops |-> "idle"]
  /\ call = [o \in Ops |-> NoCall]
  /\ client = [o \in Ops |-> 0]
  /\ outcome = [o \in Ops |-> NoOutcome]
  /\ ctx = [o \in Ops |-> {}]
  /\ released = [o \in Ops |-> 0]
  /\ idle = Conns
  /\ session = [c \in Conns |-> DefaultSession]
  /\ lastStmt = [c \in Conns |-> <<0, "none">>]
  /\ db \in RlsDbs
  /\ node = {}
  /\ edge = {}
  /\ constrained = FALSE
  /\ fn = NoFn
  /\ cte = NoCte
  /\ tx = NoTx

\* a user of the users table runs SELECT * FROM items through a user-scope wrapper
NextRLS ==
  \/ Call(1, PoolKinds, db.users, {<<>>}, {<<"SEL_ITEMS">>})
  \/ Acquire(1)
  \/ BatchReply(1)
  \/ SetStmt(1)
  \/ CallerStmt(1)
  \/ Release(1)

SpecRLS == InitRLS /\ [][NextRLS]_vars

\* the items that have an item_users row for user u
LinkedTo(d, u) == {i \in d.items : \E r \in d.item_users : r.item_id = i /\ r.user_id = u}

ReturnsLinkedItems(o) ==
  /\ outcome[o].status = "rows" => outcome[o].rows = LinkedTo(db, call[o].userId)
  /\ outcome[o].status = "error" => outcome[o].err \in {"db", "acquire"}
  /\ outcome[o].status \in {"rows", "error"}

\* C9: for every content of the tables and every user u, queryAsUser(u,
\* 'SELECT * FROM items') returns exactly the items that have an item_users
\* row with user_id = u, never an item linked only to other users or to none.
C9_ReturnsExactlyLinkedItems ==
  \A o \in Ops :
    (Finished(o) /\ call[o].kind \in {"queryAsUser", "main_queryAsUser"}
       /\ outcome[o].status = "rows")
      => outcome[o].rows = LinkedTo(db, call[o].userId)

\* the same statement for queryAsUser of part_000 and for queryAsUser2
ReturnsExactlyLinkedItemsWhenEscaped ==
  \A o \in Ops :
    (Finished(o) /\ call[o].kind \in {"queryAsUser", "queryAsUser2"})
      => ReturnsLinkedItems(o)


\* ------------------------------------------------ the example of main.ts

\* the rows main.ts documents for the seeded users
ExpectedItems(u) ==
  IF u = <<"1">> THEN {<<"1">>, <<"3">>}
  ELSE IF u = <<"2">> THEN {<<"2">>, <<"3">>}
  ELSE {}

SeedUsers == {<<"1">>, <<"2">>}

\* C11: on the seeded data queryAsUser('1', 'SELECT * FROM items') returns
\* exactly the items '1' and '3' and queryAsUser('2', ...) exactly '2' and '3';
\* item '4' is returned for neither user. An operation that ends without rows
\* ended with the error the database or the pool reported.
C11_SeedExample ==
  \A o \in Ops :
    (/\ Finished(o)
     /\ call[o].userId \in SeedUsers
     /\ call[o].queryStr = <<"SEL_ITEMS">>)
      => \/ /\ outcome[o].status = "rows"
            /\ outcome[o].rows = ExpectedItems(call[o].userId)
            /\ <<"4">> \notin outcome[o].rows
         \/ outcome[o] \in {Raised("db"), Raised("acquire")}

\* queryAsUser of main.ts returned items '1' and '3' to user '1'
C11_Witness ==
  \E o \in Ops :
    /\ Finished(o)
    /\ call[o].kind = "main_queryAsUser"
    /\ call[o].userId = <<"1">>
    /\ call[o].queryStr = <<"SEL_ITEMS">>
    /\ outcome[o] = Rows({<<"1">>, <<"3">>})

\* ------------------------------------------------------------ error paths

\* the wrappers of part_000
Part000Kinds == {"queryAsUser", "queryAsTenant", "queryAsTenantAndUser", "queryAsUser2"}

\* C12: when a context-setting statement or the caller's statement raises a
\* database error the operation raises that error and returns no rows; an
\* operation ends with rows only when its caller's statement ran, never with
\* an undefined row set, and the errors it raises are the pool's acquisition
\* error and the database's errors only.
C12_ErrorsPropagate ==
  \A o \in Ops :
    call[o].kind \in Part000Kinds =>
      /\ outcome[o].status \in {"none", "rows", "error"}
      /\ outcome[o].status = "error" =>
           /\ outcome[o].rows = {}
           /\ outcome[o].err \in {"db", "syntax", "acquire"}
      /\ (Finished(o) /\ call[o].queryStr = <<"BAD">>) => outcome[o].status = "error"
      /\ (pc[o] = "finally" /\ lastStmt[client[o]] = <<o, "set">>)
           => outcome[o] = Raised("db")
      /\ outcome[o].status = "rows" => ctx[o] # {}

\* the caller's statement of queryAsUser raised and the operation raised it
C12_Witness ==
  \E o \in Ops :
    /\ Finished(o)
    /\ call[o].kind = "queryAsUser"
    /\ call[o].queryStr = <<"BAD">>
    /\ outcome[o] = Raised("db")

\* C13: when the pool cannot supply a connection the operation raises the
\* acquisition error; it has executed no statement and has not called
\* release, and the step in which the acquisition fails leaves the pool and
\* the session state of every connection unchanged.
C13_FailedAcquisition ==
  /\ [](\A o \in Ops :
          outcome[o].err = "acquire" =>
            /\ outcome[o] = Raised("acquire")
            /\ pc[o] = "done"
            /\ released[o] = 0
            /\ client[o] = 0
            /\ ctx[o] = {})
  /\ [][\A o \in Ops :
          (outcome[o].err # "acquire" /\ outcome'[o].err = "acquire") =>
            /\ pc[o] = "connect"
            /\ UNCHANGED <<client, idle, session, lastStmt, released, db>>]_vars

\* an acquisition failed while another operation holds a connection on which
\* it has set its context
C13_Witness ==
  \E o1, o2 \in Ops :
    /\ o1 # o2
    /\ Finished(o1)
    /\ outcome[o1] = Raised("acquire")
    /\ pc[o2] = "set_done"
    /\ session[client[o2]] # DefaultSession

\* the position of a wrapper in its body
Rank(p) ==
  CASE p = "idle" -> 0
    [] p = "connect" -> 1
    [] p \in {"leased", "sent"} -> 2
    [] p = "set_done" -> 3
    [] p = "finally" -> 4
    [] p = "done" -> 5

\* C14: within one operation the pool is asked for a connection at most once
\* and each statement is sent at most once: the operation only moves forward
\* through its body, it takes a connection only from the connect step, and
\* every statement it sends moves it on. After a failed acquisition or a
\* failed statement it acquires nothing and executes nothing more.
C14_NoRetry ==
  [][\A o \in Ops :
       /\ pc'[o] # pc[o] =>
            \/ Rank(pc'[o]) > Rank(pc[o])
            \/ pc[o] = "done" /\ pc'[o] = "idle"
       /\ (client'[o] # client[o] /\ client'[o] # 0) =>
            /\ pc[o] = "connect"
            /\ client[o] = 0
            /\ outcome[o].status = "none"
       /\ \A c \in Conns :
            (lastStmt'[c] # lastStmt[c] /\ lastStmt'[c][1] = o) =>
              /\ pc'[o] # pc[o]
              /\ outcome[o].status = "none"
       /\ (outcome[o].status # "error" /\ outcome'[o].status = "error") =>
            pc'[o] \in {"finally", "done"}
       /\ (outcome[o].status = "error" /\ pc[o] # "done") =>
            /\ pc'[o] \in {pc[o], "done"}
            /\ client'[o] \in {client[o], 0}
            /\ client[o] # 0 => session'[client[o]] = session[client[o]]]_vars

\* the SET SESSION statement of queryAsUser2 raised; the operation is in its
\* finally block and has not sent its caller statement
C14_Witness ==
  \E o \in Ops :
    /\ call[o].kind = "queryAsUser2"
    /\ pc[o] = "finally"
    /\ outcome[o].status = "error"
    /\ lastStmt[client[o]] = <<o, "set">>

C16_Order ==
  /\ [](\A o \in Ops :
          call[o].kind \in {"queryAsUser", "queryAsUser2"} =>
            /\ pc[o] \in {"leased", "sent", "set_done", "finally"} =>
                 (client[o] # 0 /\ released[o] = 0)
            /\ pc[o] = "set_done" =>
                 /\ session[client[o]].uid = {call[o].userId}
                 /\ lastStmt[client[o]] = <<o, "set">>
            /\ \A s \in ctx[o] : s.uid = {call[o].userId}
            /\ released[o] > 0 => (pc[o] = "done" /\ client[o] = 0)
            /\ \A c \in Conns : lastStmt[c][1] = o => client[o] = c)
  /\ [][\A o \in Ops, c \in Conns :
          /\ (lastStmt'[c] = <<o, "caller">> /\ lastStmt[c] # lastStmt'[c]) =>
               (lastStmt[c] = <<o, "set">> /\ client[o] = c /\ released[o] = 0)
          /\ (lastStmt'[c] = <<o, "set">> /\ lastStmt[c] # lastStmt'[c]) =>
               (lastStmt[c] = <<0, "none">> /\ client[o] = c /\ released[o] = 0)
          /\ (client[o] = c /\ session'[c] # session[c]) =>
               (released[o] = 0 /\ pc[o] \in {"sent", "leased", "set_done"})]_vars

\* queryAsUser2 has run its caller statement after its SET SESSION statement
\* and stands before the release of its connection
C16_Witness ==
  \E o \in Ops :
    /\ call[o].kind = "queryAsUser2"
    /\ pc[o] = "finally"
    /\ lastStmt[client[o]] = <<o, "caller">>
    /\ outcome[o].status = "rows"


\* ------------------------------------------------------- graphs in Postgres

\* the ids of the node table for the tables drawn at will
Nodes == 1..MaxNodes

\* the test data of the post: INSERT INTO node ... / INSERT INTO edge ...
TestNodes == {1, 2, 3, 4, 5}

TestEdges == {<<1, 2>>, <<2, 3>>, <<3, 4>>, <<4, 5>>, <<1, 3>>, <<2, 5>>}

\* edge rows are <<source_node_id, target_node_id>>
source_node_id(e) == e[1]

target_node_id(e) == e[2]

\* n = ANY(path)
ANY(n, path) == \E i \in 1..Len(path) : path[i] = n

\* a row of the CTE traversed: the path walked so far and the node reached
\* (has_cycle names the second column target_node_id)
Row(path, n) == [path |-> path, node_id |-> n]

\* a plausible slip: the join follows the edges backwards
JoinEdgeReversed(E, work) == {x \in work \X E : target_node_id(x[2]) = x[1].node_id}

\* FROM traversed JOIN edge ON edge.source_node_id = traversed.node_id
JoinEdge(E, work) == {x \in work \X E : source_node_id(x[2]) = x[1].node_id}

\* SELECT traversed.path || edge.source_node_id, edge.target_node_id
Extend(x) == Row(Append(x[1].path, source_node_id(x[2])), target_node_id(x[2]))

\* the recursive term without a WHERE clause (has_cycle with early return,
\* shortest_path)
RecursiveTerm(E, work) == {Extend(x) : x \in JoinEdge(E, work)}

\* a plausible slip: the WHERE clause of all_paths is left out
RecursiveTermUnguarded(E, work) == RecursiveTerm(E, work)

\* the recursive term of all_paths:
\* WHERE NOT edge.target_node_id = ANY(traversed.path)
RecursiveTermNotInPath(E, work) ==
  {Extend(x) : x \in {y \in JoinEdge(E, work) : ~ANY(target_node_id(y[2]), y[1].path)}}

\* a row of the non-optimized has_cycle, with its is_cycle column
RowC(path, n, c) == [path |-> path, node_id |-> n, is_cycle |-> c]

\* a plausible slip: WHERE NOT traversed.is_cycle is left out
RecursiveTermIsCycleNoStop(E, work) ==
  {RowC(Append(x[1].path, source_node_id(x[2])), target_node_id(x[2]),
        ANY(target_node_id(x[2]), x[1].path)) :
     x \in JoinEdge(E, work)}

\* the recursive term of the non-optimized has_cycle:
\* SELECT path || edge.source_node_id, edge.target_node_id,
\*        edge.target_node_id = ANY(traversed.path) ... WHERE NOT traversed.is_cycle
RecursiveTermIsCycle(E, work) ==
  {RowC(Append(x[1].path, source_node_id(x[2])), target_node_id(x[2]),
        ANY(target_node_id(x[2]), x[1].path)) :
     x \in {y \in JoinEdge(E, work) : ~y[1].is_cycle}}

\* a row of the traversal queries: node_id, depth, path
RowD(n, depth, path) == [node_id |-> n, depth |-> depth, path |-> path]

\* a plausible slip: the depth starts at 0
NonRecursiveTermDepthZero(E, s) ==
  {RowD(target_node_id(e), 0, <<source_node_id(e)>>) :
     e \in {f \in E : source_node_id(f) = s}}

\* the non-recursive term of the traversal queries:
\* SELECT target_node_id AS node_id, 1 AS depth, ARRAY[source_node_id] AS path
\* FROM edge WHERE source_node_id = s
NonRecursiveTerm(E, s) ==
  {RowD(target_node_id(e), 1, <<source_node_id(e)>>) :
     e \in {f \in E : source_node_id(f) = s}}

\* SELECT edge.target_node_id, traversed.depth + 1,
\*        traversed.path || edge.source_node_id
ExtendD(x) ==
  RowD(target_node_id(x[2]), x[1].depth + 1, Append(x[1].path, source_node_id(x[2])))

\* a plausible slip: the recursion stops where a path would come back on itself
RecursiveTermReachableGuarded(E, work) ==
  {ExtendD(x) : x \in {y \in JoinEdge(E, work) : ~ANY(target_node_id(y[2]), y[1].path)}}

\* the recursive term of "Get all nodes reachable from a given node": no WHERE
RecursiveTermReachable(E, work) == {ExtendD(x) : x \in JoinEdge(E, work)}

\* AND traversed.depth < 100 -- Sanity check
SanityDepth == 100

\* a plausible slip: only the sanity check is kept of the WHERE clause
RecursiveTermSanityOnly(E, work) ==
  {ExtendD(x) : x \in {y \in JoinEdge(E, work) : y[1].depth < SanityDepth}}

\* the recursive term of the traversal that stops on a cycle:
\* WHERE NOT edge.target_node_id = ANY(traversed.path) AND traversed.depth < 100
RecursiveTermStopOnCycle(E, work) ==
  {ExtendD(x) :
     x \in {y \in JoinEdge(E, work) :
              /\ ~ANY(target_node_id(y[2]), y[1].path)
              /\ y[1].depth < SanityDepth}}

\* SELECT node_id, depth, path || node_id AS path FROM traversed
Output(rows) == {RowD(r.node_id, r.depth, Append(r.path, r.node_id)) : r \in rows}

Term(mode, E, work) ==
  CASE mode = "plain" -> RecursiveTerm(E, work)
    [] mode = "not_in_path" -> RecursiveTermNotInPath(E, work)
    [] mode = "is_cycle" -> RecursiveTermIsCycle(E, work)
    [] mode = "reachable" -> RecursiveTermReachable(E, work)
    [] mode = "stop_on_cycle" -> RecursiveTermStopOnCycle(E, work)

\* a walk of more edges than there are nodes repeats a node: a recursion that
\* still produces rows after that many iterations produces rows for ever
Fuel(E) == Cardinality({e[1] : e \in E} \cup {e[2] : e \in E}) + 1

RECURSIVE Iterate(_, _, _, _, _)
\* WITH RECURSIVE traversed AS (non-recursive term UNION ALL recursive term):
\* the working table starts as the rows of the non-recursive term; while it is
\* not empty its rows are added to the result and the recursive term, run on
\* it, replaces it. levels[k] holds the rows the k-th iteration adds, in the
\* order the query produces them; endless says that the query never ends.
Iterate(mode, E, work, levels, fuel) ==
  IF work = {} THEN [levels |-> levels, endless |-> FALSE]
  ELSE IF fuel = 0 THEN [levels |-> Append(levels, work), endless |-> TRUE]
  ELSE Iterate(mode, E, Term(mode, E, work), Append(levels, work), fuel - 1)

traversed(mode, E, start) == Iterate(mode, E, start, <<>>, Fuel(E))

\* all rows of a query that ends
AllRows(tr) == UNION {tr.levels[k] : k \in 1..Len(tr.levels)}

\* FOR rec IN query LOOP IF ... THEN RETURN ...: the rows arrive in the order
\* of the iterations. hits[k] holds the rows of iteration k that pass the IF;
\* the first iteration that holds such a row, 0 when there is none
FirstHitLevel(hits) ==
  LET ks == {k \in 1..Len(hits) : hits[k] # {}}
  IN IF ks = {} THEN 0 ELSE CHOOSE k \in ks : \A j \in ks : k <= j

\* what a function call comes to: it ends with a value, or it never ends
Ret(ends, value) == [ends |-> ends, value |-> value]

\* has_cycle, non-optimized:
\* SELECT EXISTS (SELECT 1 FROM traversed WHERE target_node_id = ANY(path))
has_cycle_non_optimized(E, s, t) ==
  LET tr == traversed("is_cycle", E, {RowC(<<s>>, t, FALSE)})
  IN IF tr.endless THEN Ret(FALSE, FALSE)
     ELSE Ret(TRUE, \E r \in AllRows(tr) : ANY(r.node_id, r.path))

\* has_cycle with early return:
\* LOOP IF rec.target_node_id = ANY(rec.path) THEN RETURN TRUE ... RETURN FALSE
has_cycle(E, s, t) ==
  LET tr == traversed("plain", E, {Row(<<s>>, t)})
      hits == [k \in 1..Len(tr.levels) |->
                 {r \in tr.levels[k] : ANY(r.node_id, r.path)}]
  IN IF FirstHitLevel(hits) # 0 THEN Ret(TRUE, TRUE)
     ELSE IF tr.endless THEN Ret(FALSE, FALSE)
     ELSE Ret(TRUE, FALSE)

\* shortest_path: the values the function may return (the rows of one
\* iteration arrive in no particular order); <<>> stands for NULL
\* SELECT path || node_id as path FROM traversed
\* LOOP IF input_target_node_id = ANY(rec.path) THEN RETURN rec.path
shortest_path(E, s, t) ==
  LET tr == traversed("plain", E, {Row(<<source_node_id(e)>>, target_node_id(e)) :
                                     e \in {f \in E : source_node_id(f) = s}})
      hits == [j \in 1..Len(tr.levels) |->
                 {r \in tr.levels[j] : ANY(t, Append(r.path, r.node_id))}]
      k == FirstHitLevel(hits)
  IN IF k # 0
     THEN {Ret(TRUE, Append(r.path, r.node_id)) : r \in hits[k]}
     ELSE IF tr.endless THEN {Ret(FALSE, <<>>)}
     ELSE {Ret(TRUE, <<>>)}

\* all_paths: SELECT path || node_id AS path FROM traversed
\*            WHERE node_id = input_target_node_id
all_paths(E, s, t) ==
  LET tr == traversed("not_in_path", E,
                      {Row(<<source_node_id(e)>>, target_node_id(e)) :
                         e \in {f \in E : source_node_id(f) = s}})
  IN IF tr.endless THEN Ret(FALSE, {})
     ELSE Ret(TRUE, {Append(r.path, r.node_id) : r \in {q \in AllRows(tr) : q.node_id = t}})

\* a plausible slip: the arguments of has_cycle in the other order
check_no_cycles_swapped(E, s, t) == has_cycle(E, t, s) = Ret(TRUE, FALSE)

\* CHECK (NOT has_cycle(source_node_id, target_node_id)), evaluated on the
\* table as it is before the row is inserted
check_no_cycles(E, s, t) == has_cycle(E, s, t) = Ret(TRUE, FALSE)

Fn(name, s, t, r) == [name |-> name, s |-> s, t |-> t, ends |-> r.ends, value |-> r.value]

\* the pairs of distinct nodes: CHECK (source_node_id != target_node_id)
Pairs(ns) == {e \in ns \X ns : e[1] # e[2]}

\* there is a walk of at least one edge from a to b
RECURSIVE ReachedFrom(_, _)
ReachedFrom(E, seen) ==
  LET more == seen \cup {e[2] : e \in {f \in E : f[1] \in seen}}
  IN IF more = seen THEN seen ELSE ReachedFrom(E, more)

PathExists(E, a, b) == b \in ReachedFrom(E, {e[2] : e \in {f \in E : f[1] = a}})

Acyclic(E) == \A e \in E : ~PathExists(E, e[1], e[1])

\* the statements of one session on the graph tables, one at a time. The
\* tables hold the test data of the post or any rows the constraints of
\* CREATE TABLE admit; ALTER TABLE ... ADD CONSTRAINT check_no_cycles has
\* succeeded only on a table whose every row passes the check
InitGraph ==
  /\ pc = [o \in Ops |-> "idle"]
  /\ call = [o \in Ops |-> NoCall]
  /\ client = [o \in Ops |-> 0]
  /\ outcome = [o \in Ops |-> NoOutcome]
  /\ ctx = [o \in Ops |-> {}]
  /\ released = [o \in Ops |-> 0]
  /\ idle = Conns
  /\ session = [c \in Conns |-> DefaultSession]
  /\ lastStmt = [c \in Conns |-> <<0, "none">>]
  /\ db = SeedDb
  /\ fn = NoFn
  /\ cte = NoCte
  /\ tx = NoTx
  /\ \/ /\ node = Nodes
        /\ edge \in SUBSET Pairs(Nodes)
        /\ constrained \in
             {c \in BOOLEAN : c => \A e \in edge : check_no_cycles(edge, e[1], e[2])}
     \/ /\ node = TestNodes
        /\ edge = TestEdges
        /\ constrained = TRUE

\* INSERT INTO edge (source_node_id, target_node_id) VALUES (s, t): the row
\* is checked against the CHECK constraints and the primary key; a row that
\* fails is not inserted and the statement raises
InsertEdge ==
  /\ fn.name = "none"
  /\ \E s \in node, t \in node :
       LET ok == /\ s # t
                 /\ <<s, t>> \notin edge
                 /\ constrained => check_no_cycles(edge, s, t)
       IN /\ edge' = IF ok THEN edge \cup {<<s, t>>} ELSE edge
          /\ fn' = Fn("insert", s, t, Ret(TRUE, ok))
  /\ UNCHANGED <<node, constrained, cte, tx>>
  /\ UNCHANGED poolVars

\* SELECT has_cycle(s, t), with either definition of the function
CallHasCycle ==
  /\ fn.name = "none"
  /\ \E s \in node, t \in node :
       \/ fn' = Fn("has_cycle", s, t, has_cycle(edge, s, t))
       \/ fn' = Fn("has_cycle_non_optimized", s, t, has_cycle_non_optimized(edge, s, t))
  /\ UNCHANGED <<node, edge, constrained, cte, tx>>
  /\ UNCHANGED poolVars

\* SELECT shortest_path(s, t)
CallShortestPath ==
  /\ fn.name = "none"
  /\ \E s \in node, t \in node :
       \E r \in shortest_path(edge, s, t) : fn' = Fn("shortest_path", s, t, r)
  /\ UNCHANGED <<node, edge, constrained, cte, tx>>
  /\ UNCHANGED poolVars

\* SELECT all_paths(s, t)
CallAllPaths ==
  /\ fn.name = "none"
  /\ \E s \in node, t \in node :
       fn' = Fn("all_paths", s, t, all_paths(edge, s, t))
  /\ UNCHANGED <<node, edge, constrained, cte, tx>>
  /\ UNCHANGED poolVars

\* the statement is over, the session is ready for the next one
NextStatement ==
  /\ fn.name # "none"
  /\ fn.ends
  /\ fn' = NoFn
  /\ UNCHANGED <<node, edge, constrained, cte, tx>>
  /\ UNCHANGED poolVars

NextGraph ==
  \/ InsertEdge
  \/ CallHasCycle
  \/ CallShortestPath
  \/ CallAllPaths
  \/ NextStatement

SpecGraph == InitGraph /\ [][NextGraph]_vars

\* ------------------------------------------------- claims about the graphs

\* C17: with check_no_cycles in place on an acyclic edge table, the table has
\* no directed cycle after any sequence of single-row inserts; an insert that
\* would close a cycle is rejected and leaves the table unchanged, and an
\* insert of a new row that closes none is accepted.
C17_NoCycleUnderConstraint ==
  /\ [](constrained => Acyclic(edge))
  /\ [][(constrained /\ fn.name = "none" /\ fn'.name = "insert") =>
          LET e == <<fn'.s, fn'.t>> IN
          /\ ~Acyclic(edge \cup {e}) => (fn'.value = FALSE /\ edge' = edge)
          /\ (e \in Pairs(node) \ edge /\ Acyclic(edge \cup {e}))
               => (fn'.value = TRUE /\ edge' = edge \cup {e})]_vars

\* an insert that would close a cycle of three or more edges was rejected
C17_Witness ==
  /\ constrained
  /\ fn.name = "insert"
  /\ fn.value = FALSE
  /\ fn.s # fn.t
  /\ <<fn.s, fn.t>> \notin edge
  /\ <<fn.t, fn.s>> \notin edge
  /\ PathExists(edge, fn.t, fn.s)

\* C18: on an acyclic edge table without self-loops has_cycle(s, t), in
\* either definition, ends and returns TRUE exactly when inserting the edge
\* s -> t would create a directed cycle, that is when s = t or the table holds
\* a path from t to s.
C18_HasCycle ==
  (fn.name \in {"has_cycle", "has_cycle_non_optimized"} /\ Acyclic(edge)) =>
    /\ fn.ends
    /\ fn.value = (fn.s = fn.t \/ PathExists(edge, fn.t, fn.s))
    /\ fn.value = ~Acyclic(edge \cup {<<fn.s, fn.t>>})

\* has_cycle found a path of two or more edges from t back to s
C18_Witness ==
  /\ Acyclic(edge)
  /\ fn.name = "has_cycle"
  /\ fn.value = TRUE
  /\ fn.s # fn.t
  /\ <<fn.t, fn.s>> \notin edge

\* p follows the edges of E
IsWalk(E, p) ==
  /\ Len(p) >= 2
  /\ \A i \in 1..(Len(p) - 1) : <<p[i], p[i + 1]>> \in E

\* the walks from s to t of at most n nodes
WalksFromTo(E, ns, s, t, n) ==
  {q \in UNION {[1..k -> ns] : k \in 2..n} :
     q[1] = s /\ q[Len(q)] = t /\ IsWalk(E, q)}

ShortestPathIsRight ==
  /\ fn.ends
  /\ IF PathExists(edge, fn.s, fn.t)
     THEN /\ IsWalk(edge, fn.value)
          /\ fn.value[1] = fn.s
          /\ fn.value[Len(fn.value)] = fn.t
          /\ WalksFromTo(edge, node, fn.s, fn.t, Len(fn.value) - 1) = {}
     ELSE fn.value = <<>>
  /\ (edge = TestEdges /\ fn.s = 1 /\ fn.t = 5) => fn.value = <<1, 2, 5>>

\* C19: on an acyclic edge table shortest_path(s, t) returns a path that
\* starts at s, ends at t, follows the edges and has the fewest edges of all
\* paths from s to t, and NULL when there is no path from s to t; on the test
\* data shortest_path(1, 5) is {1,2,5}.
C19_ShortestPath ==
  (fn.name = "shortest_path" /\ Acyclic(edge)) => ShortestPathIsRight

\* the same statement for distinct s and t
ShortestPathForDistinct ==
  (fn.name = "shortest_path" /\ Acyclic(edge) /\ fn.s # fn.t) => ShortestPathIsRight

\* the simple paths from s to t
SimplePaths(E, ns, s, t) ==
  {q \in WalksFromTo(E, ns, s, t, Cardinality(ns)) :
     \A i, j \in 1..Len(q) : i # j => q[i] # q[j]}

\* C20: on every edge table without self-loops, cyclic or not, and for
\* distinct s and t, all_paths(s, t) ends and returns exactly the simple
\* directed paths from s to t, each as its node sequence from s to t; on the
\* test data all_paths(1, 5) is {1,2,5}, {1,3,4,5}, {1,2,3,4,5}.
C20_AllPaths ==
  (fn.name = "all_paths" /\ fn.s # fn.t) =>
    /\ fn.ends
    /\ fn.value = SimplePaths(edge, node, fn.s, fn.t)
    /\ (edge = TestEdges /\ fn.s = 1 /\ fn.t = 5) =>
         fn.value = {<<1, 2, 5>>, <<1, 3, 4, 5>>, <<1, 2, 3, 4, 5>>}

\* all_paths returned two or more paths on a table that has a cycle
C20_Witness ==
  /\ ~Acyclic(edge)
  /\ fn.name = "all_paths"
  /\ fn.s # fn.t
  /\ fn.ends
  /\ Cardinality(fn.value) >= 2


\* ------------------------------------------- a recursive query, step by step

\* the example graph of the post, and the edge that closes the cycle 1 -> 2 -> 3 -> 1
ExampleNodes == {1, 2, 3, 4}

ExampleEdges == {<<1, 2>>, <<2, 3>>, <<1, 4>>}

CycleEdges == ExampleEdges \cup {<<3, 1>>}

\* a chain 1 -> 2 -> ... of more edges than the sanity check lets through
ChainNodes == 1..(SanityDepth + 2)

ChainEdges == {<<i, i + 1>> : i \in 1..(SanityDepth + 1)}

\* the tables hold any rows the constraints of CREATE TABLE admit, the example
\* graph with its cycle, or the chain
InitTraverse ==
  /\ pc = [o \in Ops |-> "idle"]
  /\ call = [o \in Ops |-> NoCall]
  /\ client = [o \in Ops |-> 0]
  /\ outcome = [o \in Ops |-> NoOutcome]
  /\ ctx = [o \in Ops |-> {}]
  /\ released = [o \in Ops |-> 0]
  /\ idle = Conns
  /\ session = [c \in Conns |-> DefaultSession]
  /\ lastStmt = [c \in Conns |-> <<0, "none">>]
  /\ db = SeedDb
  /\ fn = NoFn
  /\ cte = NoCte
  /\ tx = NoTx
  /\ constrained = FALSE
  /\ \/ node = Nodes /\ edge \in SUBSET Pairs(Nodes)
     \/ node = ExampleNodes /\ edge \in {ExampleEdges, CycleEdges}
     \/ node = ChainNodes /\ edge = ChainEdges

\* the query is sent with one of the first nodes as its starting node: step 1
\* of the evaluation, the non-recursive term goes into the result and into
\* the working table
StartQuery ==
  /\ cte.query = "none"
  /\ \E q \in {"reachable", "stop_on_cycle"}, s \in node \cap Nodes :
       LET rows == NonRecursiveTerm(edge, s)
       IN cte' = [query |-> q, s |-> s, work |-> rows, result |-> rows,
                  iter |-> 1, ended |-> FALSE]
  /\ UNCHANGED <<node, edge, constrained, fn, tx>>
  /\ UNCHANGED poolVars

\* step 2: while the working table is not empty the recursive term is
\* evaluated on it; its rows go into the result and replace the working table
IterateStep ==
  /\ cte.query # "none"
  /\ ~cte.ended
  /\ cte.work # {}
  /\ cte.query = "reachable" => cte.iter < MaxIter
  /\ LET rows == Term(cte.query, edge, cte.work)
     IN cte' = [cte EXCEPT !.work = rows, !.result = @ \cup rows, !.iter = @ + 1]
  /\ UNCHANGED <<node, edge, constrained, fn, tx>>
  /\ UNCHANGED poolVars

\* the working table is empty: the query ends and its result is returned
QueryEnds ==
  /\ cte.query # "none"
  /\ ~cte.ended
  /\ cte.work = {}
  /\ cte' = [cte EXCEPT !.ended = TRUE]
  /\ UNCHANGED <<node, edge, constrained, fn, tx>>
  /\ UNCHANGED poolVars

NextTraverse ==
  \/ StartQuery
  \/ IterateStep
  \/ QueryEnds

SpecTraverse == InitTraverse /\ [][NextTraverse]_vars

\* the server goes on with the evaluation of a query that it has begun
SpecTraverseFair ==
  SpecTraverse /\ WF_vars(IterateStep) /\ WF_vars(QueryEnds)

\* no node occurs twice in p
Simple(p) == \A i, j \in 1..Len(p) : i # j => p[i] # p[j]

\* C21: on every edge table without self-loops, with or without cycles, and
\* from every start node, the traversal guarded by
\* NOT edge.target_node_id = ANY(traversed.path) terminates: its working
\* table becomes empty and the query ends; no path it returns visits a node
\* twice.
C21_GuardedTraversalEnds ==
  /\ [](cte.query = "stop_on_cycle" =>
          \A r \in Output(cte.result) : Simple(r.path))
  /\ (cte.query = "stop_on_cycle") ~> (cte.work = {} /\ cte.ended)

\* the guarded traversal has ended on a table with a cycle and has returned rows
C21_Witness ==
  /\ cte.query = "stop_on_cycle"
  /\ cte.ended
  /\ ~Acyclic(edge)
  /\ PathExists(edge, cte.s, cte.s)
  /\ cte.result # {}

\* ------------------------------------------ what the caller's string may hold

StmtKinds ==
  {"queryAsUser", "queryAsUser2", "main_queryAsUser", "queryAsTenantAndUser"}

StmtUserIds == {<<"1">>, <<"2">>}

StmtTenantIds == {<<"1">>}

\* SELECT * FROM items; a statement that raises; two statements separated by
\* a semicolon, in both orders; SET search_path TO 'tenant_1'
StmtQueries ==
  {<<"SEL_ITEMS">>, <<"SEL_CUR">>, <<"BAD">>,
   <<"SEL_CUR", "sc", "SEL_ITEMS">>, <<"SEL_ITEMS", "sc", "SEL_CUR">>,
   <<"SET_PATH", "q", "tenant_", "1", "q">>}

\* one caller after the other on the shared pool, any of the caller strings
NextStmt ==
  \/ Call(1, StmtKinds, StmtUserIds, StmtTenantIds, StmtQueries)
  \/ Acquire(1)
  \/ AcquireFail(1)
  \/ BatchReply(1)
  \/ SetStmt(1)
  \/ CallerStmt(1)
  \/ Release(1)
  \/ Return(1)

SpecStmt == Init /\ [][NextStmt]_vars

\* the rows the last statement of the caller's string yields in session s
LastStatementRows(c, s) ==
  LET st == Statements(c.queryStr)
      last == Parse(st[Len(st)]).kind
  IN CASE last = "SEL_CUR" -> s.uid
       [] last = "SEL_ITEMS" -> UNION {VisibleItems(db, u) : u \in s.uid}
       [] OTHER -> {}

\* C22: an operation that does not raise returns the rows of the last result
\* set of its batch, whatever the number of statements in the caller's string:
\* for two statements separated by a semicolon, the rows of the second.
C22_LastResultSet ==
  \A o \in Ops :
    (Finished(o) /\ outcome[o].status # "error") =>
      /\ outcome[o].status = "rows"
      /\ \A s \in ctx[o] : outcome[o].rows = LastStatementRows(call[o], s)

\* the same statement for caller strings that hold one statement
LastResultSetForOneStatement ==
  \A o \in Ops :
    (Finished(o) /\ outcome[o].status # "error"
       /\ Len(Statements(call[o].queryStr)) = 1) =>
      /\ outcome[o].status = "rows"
      /\ \A s \in ctx[o] : outcome[o].rows = LastStatementRows(call[o], s)

\* a caller string of two statements went through and something was returned
TwoStatementsReturned ==
  \E o \in Ops :
    /\ Finished(o)
    /\ Len(Statements(call[o].queryStr)) = 2
    /\ outcome[o].status = "rows"
    /\ outcome[o].rows # {}

\* ------------------------------------------- earlier operations on the pool

\* what the call returns when it runs alone on a connection nobody used before
FreshOutcome(c) ==
  IF c.kind = "queryAsUser2"
  THEN LET r1 == ExecText(DefaultSession, db, SetUserText(c.userId)) IN
       IF r1.err # "none" THEN Raised(r1.err)
       ELSE LET r2 == ExecText(r1.sess, db, c.queryStr) IN
            IF r2.err = "none" THEN ReturnRows(r2.results) ELSE Raised(r2.err)
  ELSE LET r == ExecText(DefaultSession, db, BatchText(c)) IN
       IF r.err = "none" THEN ReturnAt(r.results, ResultIndex(c.kind))
       ELSE Raised(r.err)

\* C23: the outcome of an operation depends only on its scope, its statement
\* and the table contents, not on the operations that used its connection
\* before: unless the server or the pool fails, it is the outcome of the same
\* call on a connection nobody used before.
C23_HistoryIndependent ==
  \A o \in Ops :
    Finished(o) =>
      \/ outcome[o] = FreshOutcome(call[o])
      \/ outcome[o] \in {Raised("db"), Raised("acquire")}

\* --------------------------------------- one batch or statement by statement

PairKinds == {"queryAsUser", "queryAsUser2"}

PairUserIds == {<<"1">>, <<"q">>}

PairQueries == {<<"SEL_ITEMS">>, <<"SEL_CUR">>, <<"BAD">>}

\* two calls side by side on the shared pool
NextPair ==
  \E o \in Ops :
    \/ Call(o, PairKinds, PairUserIds, {<<>>}, PairQueries)
    \/ Acquire(o)
    \/ AcquireFail(o)
    \/ BatchReply(o)
    \/ SetStmt(o)
    \/ CallerStmt(o)
    \/ Release(o)

SpecPair == Init /\ [][NextPair]_vars

\* the server or the pool failed under the operation
Failed(o) == outcome[o] \in {Raised("db"), Raised("acquire")}

\* the two operations are one call of queryAsUser and one of queryAsUser2 with
\* the same userId and the same statement, and both are over
SameCallBothWays(o1, o2) ==
  /\ Finished(o1) /\ Finished(o2)
  /\ call[o1].kind = "queryAsUser" /\ call[o2].kind = "queryAsUser2"
  /\ call[o1].userId = call[o2].userId
  /\ call[o1].queryStr = call[o2].queryStr

LiveKinds == {"queryAsUser2"}

LiveUserIds == {<<"1">>}

LiveQueries == {<<"SEL_CUR">>, <<"BAD">>}

\* new Pool({ max: 1 }): the pool of one connection, the smallest the claim
\* admits, on which every second operation has to wait
InitLive ==
  /\ pc = [o \in Ops |-> "idle"]
  /\ call = [o \in Ops |-> NoCall]
  /\ client = [o \in Ops |-> 0]
  /\ outcome = [o \in Ops |-> NoOutcome]
  /\ ctx = [o \in Ops |-> {}]
  /\ released = [o \in Ops |-> 0]
  /\ idle = {1}
  /\ session = [c \in Conns |-> DefaultSession]
  /\ lastStmt = [c \in Conns |-> <<0, "none">>]
  /\ db = SeedDb
  /\ node = {}
  /\ edge = {}
  /\ constrained = FALSE
  /\ fn = NoFn
  /\ cte = NoCte
  /\ tx = NoTx

\* callers come and come again; the pool can supply its connection
NextLive ==
  \E o \in Ops :
    \/ Call(o, LiveKinds, LiveUserIds, {<<>>}, LiveQueries)
    \/ Acquire(o)
    \/ SetStmt(o)
    \/ CallerStmt(o)
    \/ Release(o)
    \/ Return(o)

\* the database answers every statement and the event loop runs every
\* continuation (weak fairness); the pool serves its waiters in turn, so an
\* operation that is offered a connection again and again gets one (strong
\* fairness)
SpecLive ==
  /\ InitLive
  /\ [][NextLive]_vars
  /\ \A o \in Ops :
       /\ SF_vars(Acquire(o))
       /\ WF_vars(SetStmt(o))
       /\ WF_vars(CallerStmt(o))
       /\ WF_vars(Release(o))

\* C25: with a pool of at least one connection and a database that answers,
\* every started operation eventually completes, for concurrent operations
\* too: an operation that waits for a connection holds none, and each waiting
\* operation is eventually served.
C25_EveryOperationCompletes ==
  /\ [](\A o \in Ops : pc[o] = "connect" => client[o] = 0)
  /\ \A o \in Ops : (pc[o] = "connect") ~> (pc[o] = "done")

\* an operation waits while the other holds the only connection
C25_Witness ==
  \E o1, o2 \in Ops :
    /\ pc[o1] = "connect"
    /\ idle = {}
    /\ client[o2] = 1
    /\ pc[o2] \in {"leased", "set_done", "finally"}

\* ---------------------------------------------- the two has_cycle functions

\* what the statement under way came to
Returned == Ret(fn.ends, fn.value)

\* C26: on every edge table without self-loops and for every pair (s, t) the
\* non-optimized has_cycle and the one with early return end on the same
\* inputs and return the same boolean.
C26_SameHasCycle ==
  /\ fn.name = "has_cycle" =>
       Returned = has_cycle_non_optimized(edge, fn.s, fn.t)
  /\ fn.name = "has_cycle_non_optimized" =>
       Returned = has_cycle(edge, fn.s, fn.t)
  /\ fn.name \in {"has_cycle", "has_cycle_non_optimized"} => fn.ends

\* has_cycle returned early on a table with a cycle that t reaches and that
\* does not lead back to s: the recursion by itself would never end
C26_Witness ==
  /\ fn.name = "has_cycle"
  /\ fn.ends
  /\ fn.value = TRUE
  /\ fn.s # fn.t
  /\ ~PathExists(edge, fn.t, fn.s)
  /\ \E n \in node : PathExists(edge, fn.t, n) /\ PathExists(edge, n, n)

\* ------------------------------------------------- concurrent transactions

\* two sessions, each about to insert one edge into a table on which
\* ALTER TABLE ... ADD CONSTRAINT check_no_cycles has succeeded
InitTx ==
  /\ pc = [o \in Ops |-> "idle"]
  /\ call = [o \in Ops |-> NoCall]
  /\ client = [o \in Ops |-> 0]
  /\ outcome = [o \in Ops |-> NoOutcome]
  /\ ctx = [o \in Ops |-> {}]
  /\ released = [o \in Ops |-> 0]
  /\ idle = Conns
  /\ session = [c \in Conns |-> DefaultSession]
  /\ lastStmt = [c \in Conns |-> <<0, "none">>]
  /\ db = SeedDb
  /\ fn = NoFn
  /\ cte = NoCte
  /\ tx = NoTx
  /\ node = Nodes
  /\ edge \in {E \in SUBSET Pairs(Nodes) : \A e \in E : check_no_cycles(E, e[1], e[2])}
  /\ constrained = TRUE

\* the rows other transactions have inserted and not yet committed
PendingOf(others) == {<<tx[j].s, tx[j].t>> : j \in {k \in others : tx[k].state = "inserted"}}

\* BEGIN; INSERT INTO edge (source_node_id, target_node_id) VALUES (s, t) in
\* transaction i. The CHECK constraints are evaluated on the new row; has_cycle
\* reads the edge table as the transaction sees it, that is the committed rows
\* (the transaction has none of its own yet). The primary key makes the
\* statement wait while another transaction holds the same key uncommitted.
\* A row that fails is not inserted and the transaction is aborted.
TxInsert(i) ==
  /\ tx[i].state = "idle"
  /\ \E s \in node, t \in node :
       /\ <<s, t>> \notin PendingOf(Txs \ {i})
       /\ LET ok == /\ s # t
                    /\ <<s, t>> \notin edge
                    /\ constrained => check_no_cycles(edge, s, t)
          IN tx' = [tx EXCEPT ![i] =
                      [state |-> IF ok THEN "inserted" ELSE "failed", s |-> s, t |-> t]]
  /\ UNCHANGED <<node, edge, constrained, fn, cte>>
  /\ UNCHANGED poolVars

\* COMMIT in transaction i: its row becomes visible to everybody
TxCommit(i) ==
  /\ tx[i].state = "inserted"
  /\ edge' = edge \cup {<<tx[i].s, tx[i].t>>}
  /\ tx' = [tx EXCEPT ![i].state = "committed"]
  /\ UNCHANGED <<node, constrained, fn, cte>>
  /\ UNCHANGED poolVars

NextTx == \E i \in Txs : TxInsert(i) \/ TxCommit(i)

SpecTx == InitTx /\ [][NextTx]_vars

\* C27: check_no_cycles keeps the edge table acyclic also when edges are
\* inserted by concurrent transactions: in every interleaving of transactions
\* that each insert one edge, the committed table holds no directed cycle.
C27_AcyclicUnderConcurrency == constrained => Acyclic(edge)

\* the same statement while at most one transaction has inserted
AcyclicWhenOneInserts ==
  Cardinality({i \in Txs : tx[i].state \in {"inserted", "committed"}}) <= 1
    => (constrained => Acyclic(edge))

\* ------------------------------------------- what the guarded traversal returns

\* the rows the guarded traversal returned
Returns == Output(cte.result)

\* row r stands for a simple directed path from s of at least one edge:
\* node_id is its last node, depth its number of edges, path its nodes
IsPathRow(E, s, r) ==
  /\ Len(r.path) >= 2
  /\ r.path[1] = s
  /\ \A i \in 1..(Len(r.path) - 1) : <<r.path[i], r.path[i + 1]>> \in E
  /\ Simple(r.path)
  /\ r.node_id = r.path[Len(r.path)]
  /\ r.depth = Len(r.path) - 1

\* the row that stands for the path p
PathRow(p) == RowD(p[Len(p)], Len(p) - 1, p)

\* every simple path from s of at most maxDepth edges has its row: the paths
\* of one edge have, and so has every path that adds an edge to a path of
\* fewer than maxDepth edges that has
HasEveryPath(E, s, rows, maxDepth) ==
  /\ \A e \in E : e[1] = s => PathRow(<<s, e[2]>>) \in rows
  /\ \A r \in rows : \A e \in E :
       (e[1] = r.node_id /\ ~ANY(e[2], r.path) /\ r.depth < maxDepth)
         => PathRow(Append(r.path, e[2])) \in rows

\* the nodes other than s that s reaches
Reachable(E, s) == {n \in ReachedFrom(E, {e[2] : e \in {f \in E : f[1] = s}}) : n # s}

\* C28: for every edge table without self-loops and every start node s the
\* guarded traversal returns exactly one row per simple directed path from s
\* of at least one edge (node_id its last node, depth its number of edges,
\* path its nodes), hence its node_ids are the nodes other than s that s
\* reaches.
C28_OneRowPerSimplePath ==
  (cte.query = "stop_on_cycle" /\ cte.ended) =>
    /\ \A r \in Returns : IsPathRow(edge, cte.s, r)
    /\ HasEveryPath(edge, cte.s, Returns, Cardinality(edge))
    /\ {r.node_id : r \in Returns} = Reachable(edge, cte.s)

\* the same statement with the sanity check of the query: one row per simple
\* path of at most SanityDepth edges; the node_ids are all the nodes s reaches
\* when no path got that long
C28_OneRowPerSimplePathUpToSanityDepth ==
  (cte.query = "stop_on_cycle" /\ cte.ended) =>
    /\ \A r \in Returns : IsPathRow(edge, cte.s, r) /\ r.depth <= SanityDepth
    /\ HasEveryPath(edge, cte.s, Returns, SanityDepth)
    /\ {r.node_id : r \in Returns} \subseteq Reachable(edge, cte.s)
    /\ (\A r \in Returns : r.depth < SanityDepth)
         => {r.node_id : r \in Returns} = Reachable(edge, cte.s)
    /\ (edge = CycleEdges /\ cte.s = 1) =>
         Returns = {RowD(2, 1, <<1, 2>>), RowD(4, 1, <<1, 4>>), RowD(3, 2, <<1, 2, 3>>)}

\* the traversal ended on the sanity check: a path of SanityDepth edges has
\* its row and goes on in the table
C28_Witness ==
  /\ cte.query = "stop_on_cycle"
  /\ cte.ended
  /\ \E r \in Returns :
       /\ r.depth = SanityDepth
       /\ \E e \in edge : e[1] = r.node_id /\ ~ANY(e[2], r.path)

\* --------------------------------------- the traversal that does not stop

\* the start node reaches a directed cycle (or lies on one)
ReachesCycle(E, s) ==
  \E n \in {s} \cup Reachable(E, s) : PathExists(E, s, n) /\ PathExists(E, n, n)

\* the unguarded traversal is under way on a table whose start node reaches a
\* cycle
Unguarded == cte.query = "reachable" /\ ReachesCycle(edge, cte.s)

\* C29: on an edge table with a directed cycle that the start node reaches the
\* unguarded traversal never ends: its working table is never empty, every
\* iteration produces rows, and their depth grows by one with each iteration.
C29_NeverEnds ==
  /\ [](Unguarded =>
          /\ ~cte.ended
          /\ cte.work # {}
          /\ \A r \in cte.work : r.depth = cte.iter)
  /\ [][Unguarded => (cte'.iter = cte.iter + 1 /\ cte'.work # {})]_vars
  /\ []((Unguarded /\ edge = CycleEdges /\ cte.s = 1 /\ cte.iter = 4) =>
          Output(cte.work) = {RowD(2, 4, <<1, 2, 3, 1, 2>>), RowD(4, 4, <<1, 2, 3, 1, 4>>)})

\* the example of the post, as many iterations on as the exploration goes:
\* the rows walk round the cycle 1 -> 2 -> 3 -> 1
C29_Witness ==
  /\ Unguarded
  /\ edge = CycleEdges
  /\ cte.s = 1
  /\ cte.iter = MaxIter
  /\ \E r \in cte.work : ANY(r.node_id, r.path)

==============================================================================
